---- MODULE Spec2Model ----
(***************************************************************************)
(* FreeSpot dashboard: the per-floor WebSocket manager of                  *)
(* frontend/src/hooks/useWebSocket.js, modelled as a state machine.        *)
(*                                                                         *)
(* The browser runs one task at a time.  Every action below is one task:   *)
(* a React effect run, a timer callback, or the dispatch of the events of  *)
(* one socket.                                                             *)
(*                                                                         *)
(* A WebSocket object is a record: its readyState and what its handlers    *)
(* closed over (floorId, validFloorIds).  validFloorIds is a Set built by  *)
(* one effect run and never mutated, and a callback only ever evaluates    *)
(* validFloorIds.has(floorId) for its own floorId, so a closure keeps that *)
(* one membership bit (validHasFloor).  wsConnectionsRef.current holds     *)
(* object references: wsConnections[f] is the object the map refers to,    *)
(* and `detached` are the objects the map no longer refers to whose close  *)
(* event the browser has not yet delivered.                                *)
(***************************************************************************)
EXTENDS Integers, Sequences, FiniteSets, Bags, TLC

(* ---- program constants (constants.js) ---- *)
WS_MAX_RECONNECT_ATTEMPTS == 5
WS_INITIAL_RECONNECT_DELAY == 5000
WS_MAX_RECONNECT_DELAY == 60000

(* ---- bounds of the model ---- *)
MaxSockets == 2
Floors == {1, 2}

Undefined == -1

(* ---- the frames a detection server sends, as raw text ---- *)
RawPing == "{\"type\":\"ping\"}"
RawPong == "{\"type\":\"pong\"}"
RawConnected == "{\"type\":\"connected\"}"
RawError == "{\"error\":\"no stream\"}"
RawDetection == "{\"persons_detected\":1,\"table_status\":[]}"
RawNull == "null"
RawMalformed == "{\"type\":"

Frames ==
    {RawPing, RawPong, RawConnected, RawError, RawDetection, RawNull,
     RawMalformed}

JSONParseLenient(raw) ==
    CASE raw = RawPing ->
           [throws |-> FALSE, isNull |-> FALSE, type |-> "ping",
            table_status |-> FALSE]
      [] raw = RawPong ->
           [throws |-> FALSE, isNull |-> FALSE, type |-> "pong",
            table_status |-> FALSE]
      [] raw = RawConnected ->
           [throws |-> FALSE, isNull |-> FALSE, type |-> "connected",
            table_status |-> FALSE]
      [] raw = RawDetection ->
           [throws |-> FALSE, isNull |-> FALSE, type |-> "",
            table_status |-> TRUE]
      [] raw = RawNull ->
           [throws |-> FALSE, isNull |-> TRUE, type |-> "",
            table_status |-> FALSE]
      [] OTHER ->
           [throws |-> FALSE, isNull |-> FALSE, type |-> "",
            table_status |-> FALSE]

(* JSON.parse followed by the reads onmessage makes of the result:        *)
(* `throws` when JSON.parse throws; `isNull` when the value is null (so    *)
(* that data.type throws a TypeError, caught by the same catch); `type` is *)
(* data.type ("" when absent).  Every other frame parses to an object,     *)
(* which is truthy.                                                        *)
JSONParse(raw) ==
    CASE raw = RawPing ->
           [throws |-> FALSE, isNull |-> FALSE, type |-> "ping",
            table_status |-> FALSE]
      [] raw = RawPong ->
           [throws |-> FALSE, isNull |-> FALSE, type |-> "pong",
            table_status |-> FALSE]
      [] raw = RawConnected ->
           [throws |-> FALSE, isNull |-> FALSE, type |-> "connected",
            table_status |-> FALSE]
      [] raw = RawError ->
           [throws |-> FALSE, isNull |-> FALSE, type |-> "",
            table_status |-> FALSE]
      [] raw = RawDetection ->
           [throws |-> FALSE, isNull |-> FALSE, type |-> "",
            table_status |-> TRUE]
      [] raw = RawNull ->
           [throws |-> FALSE, isNull |-> TRUE, type |-> "",
            table_status |-> FALSE]
      [] OTHER ->
           [throws |-> TRUE, isNull |-> FALSE, type |-> "",
            table_status |-> FALSE]

(* JSON.stringify({ type: 'pong' }) *)
JSONStringifyPong == RawPong

VARIABLES
    constructorThrows,    \* whether `new WebSocket(url)` throws for baseUrl
    floors,               \* the ids of the caller's `floors` array
    wsConnections,        \* wsConnectionsRef.current
    detached,             \* sockets alive outside wsConnectionsRef (a bag)
    wsReconnectAttempts,  \* wsReconnectAttemptsRef.current
    wsReconnectTimeouts,  \* wsReconnectTimeoutsRef.current
    isConnecting,         \* isConnectingRef.current
    isUnmounted,          \* isUnmountedRef.current
    staggerTimers,        \* pending setTimeout callbacks of the effect
    outbox,               \* ws.send calls made by the task that ran last
    delivered,            \* onMessage calls made by the task that ran last
    received,             \* event.data of the message event of that task
    (* useBackendConnection *)
    isConnected,          \* useState(false)
    retryCount,           \* useState(0)
    wasConnected,         \* wasConnectedRef.current
    onConnectCallbacks,   \* onConnectCallbacksRef.current
    interval,             \* period of the timer in intervalRef.current, ms
    probes,               \* healthAPI.check() calls in flight
    effectDeps,           \* [isConnected, retryCount] of the last effect run
    invoked,              \* callbacks called by the task that ran last
    unsubscribed,         \* callbacks removed by their unsubscribe function
    newestDone,           \* the probe started last has completed
    (* App and the REST client *)
    tables,               \* App's `tables` state: the name of each table
    tableStatus,          \* App's `tables` state: the status of each table
    issued,               \* REST calls issued by the task that ran last
    lastCall,             \* the call made last and how its promise settled
    (* RealtimeDetection *)
    rtPhase,              \* the component: not rendered, mounted, unmounted
    rtFloor,              \* id of the `floor` prop of the last render
    rtSockets,            \* every WebSocket the component created, in order
    wsRef,                \* wsRef.current: an index of rtSockets, or 0
    reconnectTimeoutRef,  \* reconnectTimeoutRef.current: whose timer, or 0
    reconnectAttempts,    \* reconnectAttemptsRef.current
    hasAutoStarted,       \* hasAutoStarted.current
    (* TablePage: the effect holding one detection socket per floor *)
    pagePhase,            \* the page: not rendered, mounted, unmounted
    pageFloors,           \* ids of the `floors` prop of the last effect run
    pageRun,              \* number of runs of the effect so far
    pageHasCleanup,       \* the last run returned its cleanup function
    pageSockets,          \* every WebSocket the effect's runs created
    pageConnections,      \* wsConnectionsRef.current: floor id -> socket
    (* useCanvasInteractions and the localTables state of its caller *)
    filterFloor,          \* the filterFloor argument: 'all' or a floor
    localTables,          \* coords and rotation of each table of the floor
    selectedTable,        \* useState(null): id of the table selected
    isDragging,           \* useState(false)
    isResizing,           \* useState(false)
    isRotating,           \* useState(false)
    resizeHandle,         \* useState(null)
    dragStart,            \* useState(null): which fields the object has
    isDrawing,            \* useState(false)
    currentRect,          \* useState(null): null, or how large the rect is
    lastEvent,            \* the pointer event handled last
    gesture,              \* pointer-downs since the last pointer-up
    updateCalls,          \* onUpdateTable calls made by the task that ran last
    addCalls              \* onAddTable calls made by the task that ran last

wsVars ==
    <<constructorThrows, floors, wsConnections, detached,
      wsReconnectAttempts, wsReconnectTimeouts, isConnecting, isUnmounted,
      staggerTimers, outbox, delivered, received>>

backendVars ==
    <<isConnected, retryCount, wasConnected, onConnectCallbacks, interval,
      probes, effectDeps, invoked, unsubscribed, newestDone>>

restVars == <<tables, tableStatus, issued, lastCall>>

rtVars ==
    <<rtPhase, rtFloor, rtSockets, wsRef, reconnectTimeoutRef,
      reconnectAttempts, hasAutoStarted>>

pageVars ==
    <<pagePhase, pageFloors, pageRun, pageHasCleanup, pageSockets,
      pageConnections>>

canvasVars ==
    <<filterFloor, localTables, selectedTable, isDragging, isResizing,
      isRotating, resizeHandle, dragStart, isDrawing, currentRect, lastEvent,
      gesture, updateCalls, addCalls>>

nonWsVars == <<backendVars, restVars, rtVars, pageVars, canvasVars>>

nonBackendVars == <<wsVars, restVars, rtVars, pageVars, canvasVars>>

nonRestVars == <<wsVars, backendVars, rtVars, pageVars, canvasVars>>

nonRtVars == <<wsVars, backendVars, restVars, pageVars, canvasVars>>

nonPageVars == <<wsVars, backendVars, restVars, rtVars, canvasVars>>

nonCanvasVars == <<wsVars, backendVars, restVars, rtVars, pageVars>>

vars == <<wsVars, backendVars, restVars, rtVars, pageVars, canvasVars>>

(* no entry under a key of wsConnectionsRef.current *)
NoSocket ==
    [floor |-> 0, readyState |-> "NONE", validHasFloor |-> FALSE,
     opened |-> FALSE]

NewSocket(floorId, validHasFloor) ==
    [floor |-> floorId, readyState |-> "CONNECTING",
     validHasFloor |-> validHasFloor, opened |-> FALSE]

(* no entry under a key of wsReconnectTimeoutsRef.current *)
NoTimer == [pending |-> FALSE, validHasFloor |-> FALSE, delay |-> 0]

IsLive(sock) == sock.readyState \in {"CONNECTING", "OPEN"}

(* ws.close() *)
CloseCall(sock) ==
    IF IsLive(sock) THEN [sock EXCEPT !.readyState = "CLOSING"] ELSE sock

StoredFloors == {f \in Floors : wsConnections[f] # NoSocket}

(* A reference to a WebSocket object: through the map, or a detached one. *)
StoredRef(f) == [stored |-> TRUE, sock |-> wsConnections[f]]

DetachedRef(sock) == [stored |-> FALSE, sock |-> sock]

Refs ==
    {StoredRef(f) : f \in StoredFloors}
      \cup {DetachedRef(d) : d \in BagToSet(detached)}

TotalSockets == Cardinality(StoredFloors) + BagCardinality(detached)

(* the live (OPEN or CONNECTING) sockets of floor f, counted *)
LiveCount(f) ==
    (IF IsLive(wsConnections[f]) THEN 1 ELSE 0)
      + BagCardinality(
          [d \in {x \in BagToSet(detached) : x.floor = f /\ IsLive(x)}
             |-> detached[d]])

BagAdd(bag, sock) == bag (+) SetToBag({sock})

BagRemove(bag, sock) == bag (-) SetToBag({sock})

RECURSIVE Pow2(_)
Pow2(n) == IF n <= 0 THEN 1 ELSE 2 * Pow2(n - 1)

Min(a, b) == IF a <= b THEN a ELSE b

(* `x || 0` on a retry counter *)
OrZero(a) == IF a = Undefined THEN 0 ELSE a

ReconnectDelayDoubled(currentAttempts) ==
    Min(WS_INITIAL_RECONNECT_DELAY * Pow2(currentAttempts),
        WS_MAX_RECONNECT_DELAY)

(* Math.min(INITIAL * Math.pow(2, currentAttempts - 1), MAX) *)
ReconnectDelay(currentAttempts) ==
    Min(WS_INITIAL_RECONNECT_DELAY * Pow2(currentAttempts - 1),
        WS_MAX_RECONNECT_DELAY)

(* ---- useBackendConnection.js: constants and bounds ---- *)
INITIAL_CHECK_INTERVAL == 2000
CONNECTED_CHECK_INTERVAL == 30000
MAX_RETRY_INTERVAL == 10000

MaxProbes == 2
MaxRetryCount == 5
MaxCallbacks == 2

(* the functions a caller passes to onConnect *)
Callbacks == {"cbA", "cbB"}

(* intervalRef.current === null *)
NoInterval == 0

Range(seq) == {seq[i] : i \in 1..Len(seq)}

(* ---- services/api.js and App.jsx: the values they work on ---- *)
TableIds == {1, 2, 3}
TableNames == {"T1", "T2"}
NoTable == "none"

(* constants.js *)
DEFAULT_TABLE_STATUS == "available"

HttpStatuses == {200, 201, 400, 404, 422, 500}
Bodies == {"detail", "nodetail", "notjson"}
ServerDetail == "Table name already exists"

(* fetch() rejected: no response at all *)
NetworkError == [status |-> 0, body |-> "none"]

Responses ==
    [status : HttpStatuses, body : Bodies] \cup {NetworkError}

Endpoints ==
    ({"floors"} \X {"getAll", "create", "delete"})
      \cup ({"tables", "cctv"} \X {"getAll", "create", "update", "delete"})
      \cup ({"detection"} \X {"start", "stop", "getStatus"})

NoCall ==
    [fn |-> <<"none", "none">>, response |-> NetworkError, restFailed |-> FALSE,
     rejected |-> FALSE, message |-> << >>]

(* no `floor` prop: the component has not been rendered *)
NoFloor == 0

(* the tables of the floor shown on the canvas, and the filter values *)
CanvasTableIds == {1, 2}

FilterFloors == {"all", "1"}

(* selectedTable === null; a selected table is held by its id *)
NullTable == 0

Init ==
    /\ constructorThrows \in BOOLEAN
    /\ floors = {}
    /\ wsConnections = [f \in Floors |-> NoSocket]
    /\ detached = EmptyBag
    /\ wsReconnectAttempts = [f \in Floors |-> Undefined]
    /\ wsReconnectTimeouts = [f \in Floors |-> NoTimer]
    /\ isConnecting = [f \in Floors |-> FALSE]
    /\ isUnmounted = FALSE
    /\ staggerTimers = {}
    /\ outbox = << >>
    /\ delivered = << >>
    /\ received = << >>
    /\ isConnected = FALSE
    /\ retryCount = 0
    /\ wasConnected = FALSE
    /\ onConnectCallbacks = << >>
    /\ interval = NoInterval
    /\ probes = 0
    /\ effectDeps = << >>
    /\ invoked = << >>
    /\ unsubscribed = {}
    /\ newestDone = TRUE
    /\ tables = [id \in TableIds |-> NoTable]
    /\ tableStatus = [id \in TableIds |-> NoTable]
    /\ issued = << >>
    /\ lastCall = NoCall
    /\ rtPhase = "unrendered"
    /\ rtFloor = NoFloor
    /\ rtSockets = << >>
    /\ wsRef = 0
    /\ reconnectTimeoutRef = 0
    /\ reconnectAttempts = 0
    /\ hasAutoStarted = FALSE
    /\ pagePhase = "unrendered"
    /\ pageFloors = {}
    /\ pageRun = 0
    /\ pageHasCleanup = FALSE
    /\ pageSockets = << >>
    /\ pageConnections = [f \in Floors |-> 0]
    /\ filterFloor = "1"
    /\ localTables = [id \in CanvasTableIds |-> [coords |-> 0, rotation |-> 0]]
    /\ selectedTable = NullTable
    /\ isDragging = FALSE
    /\ isResizing = FALSE
    /\ isRotating = FALSE
    /\ resizeHandle = "null"
    /\ dragStart = "null"
    /\ isDrawing = FALSE
    /\ currentRect = "null"
    /\ lastEvent = "none"
    /\ gesture = "none"
    /\ updateCalls = << >>
    /\ addCalls = 0

(* ---- connectToFloor (useWebSocket.js 37-149) ----                       *)
(* Constrains wsConnections', detached' and isConnecting'.  The URL is     *)
(* baseUrl plus a numeric id, so whether the constructor throws (the catch *)
(* branch) is fixed for the session.  An entry that is overwritten or      *)
(* deleted leaves its object detached.                                     *)
ConnectToFloor(floorId, validHasFloor) ==
    IF \/ isUnmounted
       \/ ~validHasFloor
       \/ isConnecting[floorId]
       \/ IsLive(wsConnections[floorId])
       \/ OrZero(wsReconnectAttempts[floorId]) >= WS_MAX_RECONNECT_ATTEMPTS
    THEN UNCHANGED <<wsConnections, detached, isConnecting>>
    ELSE /\ detached' =
              IF wsConnections[floorId] # NoSocket
              THEN BagAdd(detached, wsConnections[floorId])
              ELSE detached
         /\ IF constructorThrows
            THEN /\ isConnecting' = [isConnecting EXCEPT ![floorId] = FALSE]
                 /\ wsConnections' =
                      [wsConnections EXCEPT ![floorId] = NoSocket]
            ELSE /\ TotalSockets < MaxSockets
                 /\ wsConnections' =
                      [wsConnections EXCEPT
                         ![floorId] = NewSocket(floorId, validHasFloor)]
                 /\ isConnecting' = [isConnecting EXCEPT ![floorId] = TRUE]

(* ---- the reconciliation effect (useWebSocket.js 152-192) ----           *)
(* F is the id set of the new `floors` array.  The effect also re-runs     *)
(* when only the array identity or connectToFloor changed (F = floors).    *)
(* The staggered setTimeout callbacks are never cancelled; each keeps the  *)
(* validFloorIds set of the run that made it.                              *)
RemovedFloors(F) == {f \in StoredFloors : f \notin F}

ReconcileFullTeardown(F) ==
    /\ ~isUnmounted
    /\ floors' = F
    /\ UNCHANGED <<constructorThrows, isUnmounted>>
    /\ outbox' = << >>
    /\ delivered' = << >>
    /\ received' = << >>
    /\ UNCHANGED nonWsVars
    /\ IF F = {}
       THEN UNCHANGED <<wsConnections, detached, wsReconnectAttempts,
                        wsReconnectTimeouts, isConnecting, staggerTimers>>
       ELSE /\ detached' =
                 detached (+) SetToBag(
                    {CloseCall(wsConnections[f]) : f \in StoredFloors})
            /\ wsConnections' = [f \in Floors |-> NoSocket]
            /\ isConnecting' = [f \in Floors |-> FALSE]
            /\ wsReconnectAttempts' =
                 [f \in Floors |-> IF f \in F THEN 0 ELSE Undefined]
            /\ wsReconnectTimeouts' = [f \in Floors |-> NoTimer]
            /\ staggerTimers' = staggerTimers \cup
                 {[floor |-> f, validHasFloor |-> f \in F] : f \in F}

Reconcile(F) ==
    /\ ~isUnmounted
    /\ floors' = F
    /\ UNCHANGED <<constructorThrows, isUnmounted>>
    /\ outbox' = << >>
    /\ delivered' = << >>
    /\ received' = << >>
    /\ UNCHANGED nonWsVars
    /\ IF F = {}
       THEN UNCHANGED <<wsConnections, detached, wsReconnectAttempts,
                        wsReconnectTimeouts, isConnecting, staggerTimers>>
       ELSE /\ detached' =
                 detached (+) SetToBag(
                    {CloseCall(wsConnections[f]) : f \in RemovedFloors(F)})
            /\ wsConnections' =
                 [f \in Floors |->
                    IF f \in RemovedFloors(F) THEN NoSocket
                    ELSE wsConnections[f]]
            /\ isConnecting' =
                 [f \in Floors |->
                    IF f \in RemovedFloors(F) THEN FALSE
                    ELSE isConnecting[f]]
            /\ wsReconnectAttempts' =
                 [f \in Floors |->
                    IF f \in RemovedFloors(F) THEN Undefined
                    ELSE IF f \in F /\ wsReconnectAttempts[f] = Undefined
                    THEN 0
                    ELSE wsReconnectAttempts[f]]
            /\ wsReconnectTimeouts' =
                 [f \in Floors |->
                    IF f \in RemovedFloors(F) THEN NoTimer
                    ELSE wsReconnectTimeouts[f]]
            /\ staggerTimers' = staggerTimers \cup
                 {[floor |-> f, validHasFloor |-> f \in F] : f \in F}

(* ---- a staggered setTimeout callback fires (186-190) ---- *)
StaggerFire(t) ==
    /\ t \in staggerTimers
    /\ staggerTimers' = staggerTimers \ {t}
    /\ IF ~isUnmounted
       THEN ConnectToFloor(t.floor, t.validHasFloor)
       ELSE UNCHANGED <<wsConnections, detached, isConnecting>>
    /\ UNCHANGED <<constructorThrows, floors, wsReconnectAttempts,
                   wsReconnectTimeouts, isUnmounted>>
    /\ outbox' = << >>
    /\ delivered' = << >>
    /\ received' = << >>
    /\ UNCHANGED nonWsVars

(* ---- a reconnect setTimeout callback fires (131-136) ---- *)
ReconnectFire(floorId) ==
    /\ wsReconnectTimeouts[floorId].pending
    /\ IF ~isUnmounted
       THEN /\ wsReconnectTimeouts' =
                 [wsReconnectTimeouts EXCEPT ![floorId] = NoTimer]
            /\ ConnectToFloor(floorId,
                   wsReconnectTimeouts[floorId].validHasFloor)
       ELSE UNCHANGED <<wsReconnectTimeouts, wsConnections, detached,
                        isConnecting>>
    /\ UNCHANGED <<constructorThrows, floors, wsReconnectAttempts,
                   isUnmounted, staggerTimers>>
    /\ outbox' = << >>
    /\ delivered' = << >>
    /\ received' = << >>
    /\ UNCHANGED nonWsVars

(* The object ws refers to becomes `sock`. *)
UpdateSocket(ws, sock) ==
    IF ws.stored
    THEN /\ wsConnections' = [wsConnections EXCEPT ![ws.sock.floor] = sock]
         /\ UNCHANGED detached
    ELSE /\ detached' = BagAdd(BagRemove(detached, ws.sock), sock)
         /\ UNCHANGED wsConnections

(* ---- ws.onopen (74-82): the open event of socket ws ---- *)
OnOpenResetAll(ws) ==
    /\ ws.sock.readyState = "CONNECTING"
    /\ IF isUnmounted
       THEN /\ UpdateSocket(ws, [ws.sock EXCEPT !.readyState = "CLOSING",
                                                !.opened = TRUE])
            /\ UNCHANGED <<wsReconnectAttempts, isConnecting>>
       ELSE /\ UpdateSocket(ws, [ws.sock EXCEPT !.readyState = "OPEN",
                                                !.opened = TRUE])
            /\ wsReconnectAttempts' = [f \in Floors |-> 0]
            /\ isConnecting' = [f \in Floors |-> FALSE]
    /\ UNCHANGED <<constructorThrows, floors, wsReconnectTimeouts,
                   isUnmounted, staggerTimers>>
    /\ outbox' = << >>
    /\ delivered' = << >>
    /\ received' = << >>
    /\ UNCHANGED nonWsVars

OnOpen(ws) ==
    /\ ws.sock.readyState = "CONNECTING"
    /\ IF isUnmounted
       THEN /\ UpdateSocket(ws, [ws.sock EXCEPT !.readyState = "CLOSING",
                                                !.opened = TRUE])
            /\ UNCHANGED <<wsReconnectAttempts, isConnecting>>
       ELSE /\ UpdateSocket(ws, [ws.sock EXCEPT !.readyState = "OPEN",
                                                !.opened = TRUE])
            /\ wsReconnectAttempts' =
                 [wsReconnectAttempts EXCEPT ![ws.sock.floor] = 0]
            /\ isConnecting' =
                 [isConnecting EXCEPT ![ws.sock.floor] = FALSE]
    /\ UNCHANGED <<constructorThrows, floors, wsReconnectTimeouts,
                   isUnmounted, staggerTimers>>
    /\ outbox' = << >>
    /\ delivered' = << >>
    /\ received' = << >>
    /\ UNCHANGED nonWsVars

(* ---- ws.onmessage (84-102): a frame arrives on open socket ws ---- *)
OnMessagePongOnStoredSocket(ws, raw) ==
    /\ ws.sock.readyState = "OPEN"
    /\ LET data == JSONParse(raw)
           floorId == ws.sock.floor
       IN  IF isUnmounted \/ data.throws \/ data.isNull
           THEN outbox' = << >> /\ delivered' = << >>
           ELSE IF data.type = "ping"
           THEN /\ outbox' =
                     IF wsConnections[floorId].readyState = "OPEN"
                     THEN <<[to |-> StoredRef(floorId),
                             data |-> JSONStringifyPong]>>
                     ELSE << >>
                /\ delivered' = << >>
           ELSE /\ outbox' = << >>
                /\ delivered' = <<[data |-> raw, floorId |-> floorId]>>
    /\ received' = <<raw>>
    /\ UNCHANGED nonWsVars
    /\ UNCHANGED <<constructorThrows, floors, wsConnections, detached,
                   wsReconnectAttempts, wsReconnectTimeouts, isConnecting,
                   isUnmounted, staggerTimers>>

OnMessage(ws, raw) ==
    /\ ws.sock.readyState = "OPEN"
    /\ LET data == JSONParse(raw)
           floorId == ws.sock.floor
       IN  IF isUnmounted \/ data.throws \/ data.isNull
           THEN outbox' = << >> /\ delivered' = << >>
           ELSE IF data.type = "ping"
           THEN /\ outbox' =
                     IF ws.sock.readyState = "OPEN"
                     THEN <<[to |-> ws, data |-> JSONStringifyPong]>>
                     ELSE << >>
                /\ delivered' = << >>
           ELSE /\ outbox' = << >>
                /\ delivered' = <<[data |-> raw, floorId |-> floorId]>>
    /\ received' = <<raw>>
    /\ UNCHANGED nonWsVars
    /\ UNCHANGED <<constructorThrows, floors, wsConnections, detached,
                   wsReconnectAttempts, wsReconnectTimeouts, isConnecting,
                   isUnmounted, staggerTimers>>

OnCloseClearsEveryFlag(ws, failed) ==
    /\ ws.sock.readyState \in {"CONNECTING", "OPEN", "CLOSING"}
    /\ ws.sock.readyState = "CONNECTING" => failed
    /\ LET floorId == ws.sock.floor
           validHasFloor == ws.sock.validHasFloor
           currentAttempts == OrZero(wsReconnectAttempts[floorId]) + 1
       IN
       /\ wsConnections' = [wsConnections EXCEPT ![floorId] = NoSocket]
       /\ detached' =
            IF ws.stored THEN detached
            ELSE IF wsConnections[floorId] # NoSocket
            THEN BagAdd(BagRemove(detached, ws.sock),
                        wsConnections[floorId])
            ELSE BagRemove(detached, ws.sock)
       /\ isConnecting' = [f \in Floors |-> FALSE]
       /\ IF isUnmounted \/ ~validHasFloor
          THEN UNCHANGED <<wsReconnectAttempts, wsReconnectTimeouts>>
          ELSE /\ wsReconnectAttempts' =
                    [wsReconnectAttempts EXCEPT ![floorId] = currentAttempts]
               /\ IF currentAttempts < WS_MAX_RECONNECT_ATTEMPTS
                  THEN wsReconnectTimeouts' =
                         [wsReconnectTimeouts EXCEPT ![floorId] =
                            [pending |-> TRUE,
                             validHasFloor |-> validHasFloor,
                             delay |-> ReconnectDelay(currentAttempts)]]
                  ELSE UNCHANGED wsReconnectTimeouts
    /\ UNCHANGED <<constructorThrows, floors, isUnmounted, staggerTimers>>
    /\ outbox' = << >>
    /\ delivered' = << >>
    /\ received' = << >>
    /\ UNCHANGED nonWsVars

(* ---- the connection of socket ws is closed ----                         *)
(* One task: readyState becomes CLOSED, then the error event is fired      *)
(* when the connection failed (ws.onerror, 104-107, which only clears the  *)
(* connecting flag), then the close event (ws.onclose, 109-138).  A closed *)
(* socket gets no further event, so its object is dropped.  The handler's  *)
(* `delete wsConnectionsRef.current[floorId]` removes whatever entry the   *)
(* floor has, which need not be ws.                                        *)
OnClose(ws, failed) ==
    /\ ws.sock.readyState \in {"CONNECTING", "OPEN", "CLOSING"}
    /\ ws.sock.readyState = "CONNECTING" => failed
    /\ LET floorId == ws.sock.floor
           validHasFloor == ws.sock.validHasFloor
           currentAttempts == OrZero(wsReconnectAttempts[floorId]) + 1
       IN
       /\ wsConnections' = [wsConnections EXCEPT ![floorId] = NoSocket]
       /\ detached' =
            IF ws.stored THEN detached
            ELSE IF wsConnections[floorId] # NoSocket
            THEN BagAdd(BagRemove(detached, ws.sock),
                        wsConnections[floorId])
            ELSE BagRemove(detached, ws.sock)
       /\ isConnecting' = [isConnecting EXCEPT ![floorId] = FALSE]
       /\ IF isUnmounted \/ ~validHasFloor
          THEN UNCHANGED <<wsReconnectAttempts, wsReconnectTimeouts>>
          ELSE /\ wsReconnectAttempts' =
                    [wsReconnectAttempts EXCEPT ![floorId] = currentAttempts]
               /\ IF currentAttempts < WS_MAX_RECONNECT_ATTEMPTS
                  THEN wsReconnectTimeouts' =
                         [wsReconnectTimeouts EXCEPT ![floorId] =
                            [pending |-> TRUE,
                             validHasFloor |-> validHasFloor,
                             delay |-> ReconnectDelay(currentAttempts)]]
                  ELSE UNCHANGED wsReconnectTimeouts
    /\ UNCHANGED <<constructorThrows, floors, isUnmounted, staggerTimers>>
    /\ outbox' = << >>
    /\ delivered' = << >>
    /\ received' = << >>
    /\ UNCHANGED nonWsVars

UnmountKeepsTimers ==
    /\ ~isUnmounted
    /\ isUnmounted' = TRUE
    /\ UNCHANGED wsReconnectTimeouts
    /\ detached' =
         detached (+) SetToBag(
            {CloseCall(wsConnections[f]) : f \in StoredFloors})
    /\ wsConnections' = [f \in Floors |-> NoSocket]
    /\ wsReconnectAttempts' = [f \in Floors |-> Undefined]
    /\ isConnecting' = [f \in Floors |-> FALSE]
    /\ UNCHANGED <<constructorThrows, floors, staggerTimers>>
    /\ outbox' = << >>
    /\ delivered' = << >>
    /\ received' = << >>
    /\ UNCHANGED nonWsVars

(* ---- the unmount cleanup (195-224) ---- *)
Unmount ==
    /\ ~isUnmounted
    /\ isUnmounted' = TRUE
    /\ wsReconnectTimeouts' = [f \in Floors |-> NoTimer]
    /\ detached' =
         detached (+) SetToBag(
            {CloseCall(wsConnections[f]) : f \in StoredFloors})
    /\ wsConnections' = [f \in Floors |-> NoSocket]
    /\ wsReconnectAttempts' = [f \in Floors |-> Undefined]
    /\ isConnecting' = [f \in Floors |-> FALSE]
    /\ UNCHANGED <<constructorThrows, floors, staggerTimers>>
    /\ outbox' = << >>
    /\ delivered' = << >>
    /\ received' = << >>
    /\ UNCHANGED nonWsVars

(* ---- the manager on a network that drops and refuses connections ---- *)
Next ==
    \/ \E F \in SUBSET Floors : Reconcile(F)
    \/ \E t \in staggerTimers : StaggerFire(t)
    \/ \E f \in Floors : ReconnectFire(f)
    \/ \E ws \in Refs : OnOpen(ws)
    \/ \E ws \in Refs, failed \in BOOLEAN : OnClose(ws, failed)
    \/ Unmount

Spec == Init /\ [][Next]_vars

(* ---- the manager receiving frames; connections close only when the     *)
(* manager closed them (frames change none of the manager's state)    ---- *)
NextMsg ==
    \/ \E F \in SUBSET Floors : Reconcile(F)
    \/ \E t \in staggerTimers : StaggerFire(t)
    \/ \E f \in Floors : ReconnectFire(f)
    \/ \E ws \in Refs : OnOpen(ws)
    \/ \E ws \in Refs, raw \in Frames : OnMessage(ws, raw)
    \/ \E ws \in Refs :
          ws.sock.readyState = "CLOSING" /\ OnClose(ws, ~ws.sock.opened)
    \/ Unmount

SpecMsg == Init /\ [][NextMsg]_vars

TypeOK ==
    /\ floors \subseteq Floors
    /\ wsReconnectAttempts \in [Floors -> Int]
    /\ isConnecting \in [Floors -> BOOLEAN]
    /\ isUnmounted \in BOOLEAN
    /\ TotalSockets <= MaxSockets

(***************************************************************************)
(* The backend connection monitor, hooks/useBackendConnection.js.  A task  *)
(* is an effect run, an interval tick, a call of retry / onConnect /       *)
(* unsubscribe, or the continuation of checkConnection after its await.    *)
(***************************************************************************)

(* checkConnection() up to its await: one more health probe in flight *)
StartProbe ==
    /\ probes < MaxProbes
    /\ probes' = probes + 1
    /\ newestDone' = FALSE

(* isConnected ? CONNECTED : Math.min(INITIAL * (retryCount + 1), MAX) *)
CheckInterval(connected, retries) ==
    IF connected
    THEN CONNECTED_CHECK_INTERVAL
    ELSE Min(INITIAL_CHECK_INTERVAL * (retries + 1), MAX_RETRY_INTERVAL)

(* ---- the polling effect (80-107): runs after mount and after every     *)
(* render in which isConnected or retryCount differs from its last run --- *)
PollingEffect ==
    /\ effectDeps # <<isConnected, retryCount>>
    /\ effectDeps' = <<isConnected, retryCount>>
    /\ StartProbe
    /\ interval' = CheckInterval(isConnected, retryCount)
    /\ invoked' = << >>
    /\ UNCHANGED <<isConnected, retryCount, wasConnected,
                   onConnectCallbacks, unsubscribed>>
    /\ UNCHANGED nonBackendVars

(* ---- a tick of setInterval(checkConnection, interval) (97) ---- *)
IntervalFire ==
    /\ interval # NoInterval
    /\ StartProbe
    /\ invoked' = << >>
    /\ UNCHANGED <<isConnected, retryCount, wasConnected,
                   onConnectCallbacks, interval, effectDeps, unsubscribed>>
    /\ UNCHANGED nonBackendVars

(* ---- retry() (75-77) ---- *)
Retry ==
    /\ effectDeps # << >>
    /\ StartProbe
    /\ invoked' = << >>
    /\ UNCHANGED <<isConnected, retryCount, wasConnected,
                   onConnectCallbacks, interval, effectDeps, unsubscribed>>
    /\ UNCHANGED nonBackendVars

(* ---- checkConnection after `await healthAPI.check()` (29-59) ----      *)
(* healthAPI.check() resolves to response.ok, or to false when fetch       *)
(* rejects, so the catch branch (53-56) does what the else branch does.    *)
(* The probes in flight complete in any order: either the one started last *)
(* completes, or one started before it.                                    *)
ProbeCompleteAlwaysNotifies(isHealthy) ==
    /\ probes > 0
    /\ probes' = probes - 1
    /\ \/ ~newestDone /\ newestDone' = TRUE
       \/ probes > (IF newestDone THEN 0 ELSE 1) /\ UNCHANGED newestDone
    /\ IF isHealthy
       THEN /\ isConnected' = TRUE
            /\ retryCount' = 0
            /\ wasConnected' = TRUE
            /\ invoked' = onConnectCallbacks
       ELSE /\ retryCount < MaxRetryCount
            /\ isConnected' = FALSE
            /\ wasConnected' = FALSE
            /\ retryCount' = retryCount + 1
            /\ invoked' = << >>
    /\ UNCHANGED <<onConnectCallbacks, interval, effectDeps, unsubscribed>>
    /\ UNCHANGED nonBackendVars

ProbeComplete(isHealthy) ==
    /\ probes > 0
    /\ probes' = probes - 1
    /\ \/ ~newestDone /\ newestDone' = TRUE
       \/ probes > (IF newestDone THEN 0 ELSE 1) /\ UNCHANGED newestDone
    /\ IF isHealthy
       THEN LET wasDisconnected == ~wasConnected
            IN  /\ isConnected' = TRUE
                /\ retryCount' = 0
                /\ wasConnected' = TRUE
                /\ invoked' =
                     IF wasDisconnected THEN onConnectCallbacks ELSE << >>
       ELSE /\ retryCount < MaxRetryCount
            /\ isConnected' = FALSE
            /\ wasConnected' = FALSE
            /\ retryCount' = retryCount + 1
            /\ invoked' = << >>
    /\ UNCHANGED <<onConnectCallbacks, interval, effectDeps, unsubscribed>>
    /\ UNCHANGED nonBackendVars

(* ---- onConnect(callback) (63-72): push ---- *)
OnConnect(callback) ==
    /\ Len(onConnectCallbacks) < MaxCallbacks
    /\ onConnectCallbacks' = Append(onConnectCallbacks, callback)
    /\ unsubscribed' = unsubscribed \ {callback}
    /\ invoked' = << >>
    /\ UNCHANGED <<isConnected, retryCount, wasConnected, interval, probes,
                   effectDeps, newestDone>>
    /\ UNCHANGED nonBackendVars

(* ---- the function onConnect(callback) returned (67-71): filter ---- *)
UnsubscribeDropsLast(callback) ==
    /\ callback \in Range(onConnectCallbacks)
    /\ onConnectCallbacks' =
         SubSeq(onConnectCallbacks, 1, Len(onConnectCallbacks) - 1)
    /\ unsubscribed' = unsubscribed \cup {callback}
    /\ invoked' = << >>
    /\ UNCHANGED <<isConnected, retryCount, wasConnected, interval, probes,
                   effectDeps, newestDone>>
    /\ UNCHANGED nonBackendVars

Unsubscribe(callback) ==
    /\ callback \in Range(onConnectCallbacks)
    /\ onConnectCallbacks' =
         SelectSeq(onConnectCallbacks, LAMBDA cb : cb # callback)
    /\ unsubscribed' = unsubscribed \cup {callback}
    /\ invoked' = << >>
    /\ UNCHANGED <<isConnected, retryCount, wasConnected, interval, probes,
                   effectDeps, newestDone>>
    /\ UNCHANGED nonBackendVars

NextBackend ==
    \/ PollingEffect
    \/ IntervalFire
    \/ Retry
    \/ \E isHealthy \in BOOLEAN : ProbeComplete(isHealthy)
    \/ \E callback \in Callbacks : OnConnect(callback)
    \/ \E callback \in Callbacks : Unsubscribe(callback)

SpecBackend == Init /\ [][NextBackend]_vars

(***************************************************************************)
(* The REST client, services/api.js, and the table handlers of App.jsx.    *)
(* An Error's message is the sequence of the pieces it is built from.      *)
(***************************************************************************)

(* response.ok *)
ResponseOk(response) == response.status >= 200 /\ response.status <= 299

(* the literal each call throws on !response.ok *)
FailureText(endpoint) ==
    CASE endpoint = <<"floors", "getAll">> -> "Failed to fetch floors"
      [] endpoint = <<"floors", "create">> -> "Failed to create floor"
      [] endpoint = <<"floors", "delete">> -> "Failed to delete floor"
      [] endpoint = <<"tables", "getAll">> -> "Failed to fetch tables"
      [] endpoint = <<"tables", "create">> -> "Failed to create table ("
      [] endpoint = <<"tables", "update">> -> "Failed to update table"
      [] endpoint = <<"tables", "delete">> -> "Failed to delete table"
      [] endpoint = <<"cctv", "getAll">> -> "Failed to fetch CCTV streams"
      [] endpoint = <<"cctv", "create">> -> "Failed to create CCTV stream"
      [] endpoint = <<"cctv", "update">> -> "Failed to update CCTV stream"
      [] endpoint = <<"cctv", "delete">> -> "Failed to delete CCTV stream"
      [] endpoint = <<"detection", "start">> -> "Failed to start detection"
      [] endpoint = <<"detection", "stop">> -> "Failed to stop detection"
      [] OTHER -> "Failed to fetch detection status"

(* One call of the client: how its promise settles for a given response.   *)
(* fetch rejects with a TypeError when there is no response; a call        *)
(* returns response.json(), which rejects with a SyntaxError on a body     *)
(* that is not JSON; only tablesAPI.create reads the error body.           *)
RestCall(endpoint, response) ==
    IF response = NetworkError
    THEN [rejected |-> TRUE, message |-> <<"TypeError: Failed to fetch">>]
    ELSE IF ~ResponseOk(response)
    THEN IF endpoint = <<"tables", "create">>
         THEN [rejected |-> TRUE,
               message |->
                 IF response.body = "detail"
                 THEN <<ServerDetail>>
                 ELSE <<FailureText(endpoint),
                        ToString(response.status), ")">>]
         ELSE [rejected |-> TRUE, message |-> <<FailureText(endpoint)>>]
    ELSE IF response.body = "notjson"
    THEN [rejected |-> TRUE, message |-> <<"SyntaxError">>]
    ELSE [rejected |-> FALSE, message |-> << >>]

PresentTables == {id \in TableIds : tables[id] # NoTable}

(* Math.max(...tables.map((t) => t.id)) + 1, or 1 for an empty list *)
NextLocalId ==
    IF PresentTables = {}
    THEN 1
    ELSE (CHOOSE m \in PresentTables : \A id \in PresentTables : id <= m) + 1

(* ---- a direct call of the client ---- *)
ApiCall(endpoint, response) ==
    /\ lastCall' =
         [fn |-> endpoint, response |-> response,
          restFailed |-> RestCall(endpoint, response).rejected,
          rejected |-> RestCall(endpoint, response).rejected,
          message |-> RestCall(endpoint, response).message]
    /\ issued' = <<endpoint>>
    /\ UNCHANGED <<tables, tableStatus>>
    /\ UNCHANGED nonRestVars

(* ---- handleAddTable (App.jsx 152-219); connected is the isConnected    *)
(* of the render the handler closed over ---- *)
HandleAddTable(name, connected, response) ==
    /\ IF connected
       THEN LET created == RestCall(<<"tables", "create">>, response)
            IN  IF created.rejected
                THEN /\ UNCHANGED <<tables, tableStatus>>
                     /\ lastCall' =
                          [fn |-> <<"App", "handleAddTable">>,
                           response |-> response, restFailed |-> TRUE,
                           rejected |-> TRUE, message |-> created.message]
                ELSE /\ \E id \in TableIds \ PresentTables :
                           /\ tables' = [tables EXCEPT ![id] = name]
                           /\ tableStatus' =
                                [tableStatus EXCEPT
                                   ![id] = DEFAULT_TABLE_STATUS]
                     /\ lastCall' =
                          [fn |-> <<"App", "handleAddTable">>,
                           response |-> response, restFailed |-> FALSE,
                           rejected |-> FALSE, message |-> << >>]
       ELSE /\ response = NetworkError
            /\ NextLocalId \in TableIds
            /\ tables' = [tables EXCEPT ![NextLocalId] = name]
            /\ tableStatus' =
                 [tableStatus EXCEPT ![NextLocalId] = DEFAULT_TABLE_STATUS]
            /\ lastCall' =
                 [fn |-> <<"App", "handleAddTable">>,
                  response |-> NetworkError, restFailed |-> FALSE,
                  rejected |-> FALSE, message |-> << >>]
    /\ issued' = IF connected THEN <<<<"tables", "create">>>> ELSE << >>
    /\ UNCHANGED nonRestVars

(* ---- handleUpdateTable (App.jsx 222-252) ---- *)
HandleUpdateTable(id, name, connected, response) ==
    /\ tables' =
         IF tables[id] # NoTable
         THEN [tables EXCEPT ![id] = name]
         ELSE tables
    /\ IF connected /\ tables[id] # NoTable
       THEN lastCall' =
              [fn |-> <<"App", "handleUpdateTable">>,
               response |-> response,
               restFailed |->
                 RestCall(<<"tables", "update">>, response).rejected,
               rejected |-> FALSE, message |-> << >>]
       ELSE /\ response = NetworkError
            /\ lastCall' =
                 [fn |-> <<"App", "handleUpdateTable">>,
                  response |-> NetworkError, restFailed |-> FALSE,
                  rejected |-> FALSE, message |-> << >>]
    /\ issued' =
         IF connected /\ tables[id] # NoTable
         THEN <<<<"tables", "update">>>>
         ELSE << >>
    /\ UNCHANGED tableStatus
    /\ UNCHANGED nonRestVars

(* ---- handleDeleteTable (App.jsx 255-278) ---- *)
HandleDeleteTable(id, connected, response) ==
    /\ IF Cardinality(PresentTables) <= 1
       THEN /\ response = NetworkError
            /\ UNCHANGED <<tables, tableStatus>>
            /\ issued' = << >>
            /\ lastCall' =
                 [fn |-> <<"App", "handleDeleteTable">>,
                  response |-> NetworkError, restFailed |-> FALSE,
                  rejected |-> FALSE, message |-> << >>]
       ELSE /\ tables' = [tables EXCEPT ![id] = NoTable]
            /\ tableStatus' = [tableStatus EXCEPT ![id] = NoTable]
            /\ issued' =
                 IF connected THEN <<<<"tables", "delete">>>> ELSE << >>
            /\ IF connected
               THEN lastCall' =
                      [fn |-> <<"App", "handleDeleteTable">>,
                       response |-> response,
                       restFailed |->
                         RestCall(<<"tables", "delete">>, response).rejected,
                       rejected |-> FALSE, message |-> << >>]
               ELSE /\ response = NetworkError
                    /\ lastCall' =
                         [fn |-> <<"App", "handleDeleteTable">>,
                          response |-> NetworkError, restFailed |-> FALSE,
                          rejected |-> FALSE, message |-> << >>]
    /\ UNCHANGED nonRestVars

NextRest ==
    \/ \E endpoint \in Endpoints, response \in Responses :
          ApiCall(endpoint, response)
    \/ \E name \in TableNames, connected \in BOOLEAN,
          response \in Responses :
          HandleAddTable(name, connected, response)
    \/ \E id \in TableIds, name \in TableNames, connected \in BOOLEAN,
          response \in Responses :
          HandleUpdateTable(id, name, connected, response)
    \/ \E id \in TableIds, connected \in BOOLEAN, response \in Responses :
          HandleDeleteTable(id, connected, response)

SpecRest == Init /\ [][NextRest]_vars

(***************************************************************************)
(* Detection-derived table status: TablePage.handleDetectionUpdate and     *)
(* App.handleStatusChange.                                                 *)
(***************************************************************************)

MaxEntries == 2

Statuses == {"available", "occupied", "reserved"}

(* the entries of a message's table_status, as an array (Object.values of  *)
(* an object gives the same entries in key order)                          *)
TableStatusEntries ==
    UNION {[1..n -> [id : TableIds, occupied : BOOLEAN]] : n \in 0..MaxEntries}

(* a parsed detection message: with or without a table_status field *)
DetectionMessages ==
    [hasTableStatus : BOOLEAN, table_status : TableStatusEntries]

(* tableStatus.occupied ? 'occupied' : 'available' *)
NewStatus(occupied) == IF occupied THEN "occupied" ELSE "available"

(* setTables((prev) => prev.map((table) =>                                 *)
(*    table.id === id ? { ...table, status: newStatus } : table))          *)
SetStatus(status, id, newStatus) ==
    IF tables[id] # NoTable
    THEN [status EXCEPT ![id] = newStatus]
    ELSE status

RECURSIVE ApplyDetectionFirstWins(_, _)
ApplyDetectionFirstWins(status, entries) ==
    IF entries = << >>
    THEN status
    ELSE SetStatus(ApplyDetectionFirstWins(status, Tail(entries)),
                   Head(entries).id, NewStatus(Head(entries).occupied))

(* tableStatusArray.forEach: the queued updaters run in call order *)
RECURSIVE ApplyDetection(_, _)
ApplyDetection(status, entries) ==
    IF entries = << >>
    THEN status
    ELSE ApplyDetection(
            SetStatus(status, Head(entries).id,
                      NewStatus(Head(entries).occupied)),
            Tail(entries))

(* ---- handleStatusChange (App.jsx 127-149), called by the UI ---- *)
HandleStatusChange(id, newStatus, skipApiUpdate, connected, response) ==
    /\ tableStatus' = SetStatus(tableStatus, id, newStatus)
    /\ IF connected /\ ~skipApiUpdate /\ tables[id] # NoTable
       THEN /\ issued' = <<<<"tables", "update">>>>
            /\ lastCall' =
                 [fn |-> <<"App", "handleStatusChange">>,
                  response |-> response,
                  restFailed |->
                    RestCall(<<"tables", "update">>, response).rejected,
                  rejected |-> FALSE, message |-> << >>]
       ELSE /\ response = NetworkError
            /\ issued' = << >>
            /\ lastCall' =
                 [fn |-> <<"App", "handleStatusChange">>,
                  response |-> NetworkError, restFailed |-> FALSE,
                  rejected |-> FALSE, message |-> << >>]
    /\ UNCHANGED tables
    /\ UNCHANGED nonRestVars

(* ---- handleDetectionUpdate (TablePage.jsx 161-185): every entry calls   *)
(* onStatusChange(id, newStatus, true) ---- *)
HandleDetectionUpdate(detectionData) ==
    /\ tableStatus' =
         IF detectionData.hasTableStatus
         THEN ApplyDetection(tableStatus, detectionData.table_status)
         ELSE tableStatus
    /\ issued' = << >>
    /\ lastCall' =
         [fn |-> <<"TablePage", "handleDetectionUpdate">>,
          response |-> NetworkError, restFailed |-> FALSE,
          rejected |-> FALSE,
          message |->
            IF detectionData.hasTableStatus
            THEN detectionData.table_status
            ELSE << >>]
    /\ UNCHANGED tables
    /\ UNCHANGED nonRestVars

NextDetection ==
    \/ \E name \in TableNames : HandleAddTable(name, FALSE, NetworkError)
    \/ \E id \in TableIds, newStatus \in Statuses,
          skipApiUpdate \in BOOLEAN, connected \in BOOLEAN,
          response \in {NetworkError, [status |-> 200, body |-> "nodetail"]} :
          HandleStatusChange(id, newStatus, skipApiUpdate, connected,
                             response)
    \/ \E detectionData \in DetectionMessages :
          HandleDetectionUpdate(detectionData)

SpecDetection == Init /\ [][NextDetection]_vars

(***************************************************************************)
(* components/TablePage/RealtimeDetection.jsx: the detection socket of the *)
(* floor on display and its inline reconnect logic.                        *)
(*                                                                         *)
(* A socket is [floor, readyState, timer, delay, cleaned].  Its handlers   *)
(* are closures of the render that called connectWebSocket, so `floor` is  *)
(* the floor of that render; the timer its onclose handler starts calls    *)
(* the connectWebSocket of the same render.  `timer` is the state of that  *)
(* timer and `delay` its delay; `cleaned` records that the effect cleanup  *)
(* called close() on the socket.                                           *)
(***************************************************************************)
MAX_RECONNECT_ATTEMPTS == 5
BASE_RECONNECT_DELAY == 3000

MaxRtSockets == 4

(* const delay = BASE_RECONNECT_DELAY * reconnectAttemptsRef.current (306) *)
RtReconnectDelay(attempts) == BASE_RECONNECT_DELAY * attempts

RtNewSocket(floor) ==
    [floor |-> floor, readyState |-> "CONNECTING", timer |-> "none",
     delay |-> 0, cleaned |-> FALSE]

(* connectWebSocket (144-328) of a render whose floor prop is `floor`,     *)
(* applied to the sockets `sockets`: the new list and the new wsRef.       *)
ConnectWebSocket(floor, sockets, ref) ==
    IF floor = NoFloor
    THEN [sockets |-> sockets, ref |-> ref]
    ELSE [sockets |-> Append(sockets, RtNewSocket(floor)),
          ref |-> Len(sockets) + 1]

(* ws.close() *)
RtClose(socket) ==
    IF socket.readyState \in {"CONNECTING", "OPEN"}
    THEN [socket EXCEPT !.readyState = "CLOSING", !.cleaned = TRUE]
    ELSE socket

(* the effect's cleanup (36-46): the sockets it leaves *)
RtCleanup ==
    [i \in 1..Len(rtSockets) |->
       LET closed == IF wsRef = i THEN RtClose(rtSockets[i]) ELSE rtSockets[i]
       IN  IF reconnectTimeoutRef = i /\ closed.timer = "pending"
           THEN [closed EXCEPT !.timer = "cleared"]
           ELSE closed]

(* the effect's body (28-34) run with floor prop `floor` after `sockets` *)
RtEffect(floor, sockets, ref) ==
    /\ rtFloor' = floor
    /\ IF floor # NoFloor /\ ~hasAutoStarted
       THEN /\ hasAutoStarted' = TRUE
            /\ rtSockets' = ConnectWebSocket(floor, sockets, ref).sockets
            /\ wsRef' = ConnectWebSocket(floor, sockets, ref).ref
       ELSE /\ rtSockets' = sockets
            /\ wsRef' = ref
            /\ UNCHANGED hasAutoStarted

RtMount(floor) ==
    /\ rtPhase = "unrendered"
    /\ rtPhase' = "mounted"
    /\ RtEffect(floor, rtSockets, wsRef)
    /\ UNCHANGED <<reconnectTimeoutRef, reconnectAttempts>>
    /\ UNCHANGED nonRtVars

(* a render with another `floor` object: cleanup, then the effect again *)
RtFloorChange(floor) ==
    /\ rtPhase = "mounted"
    /\ RtEffect(floor, RtCleanup, 0)
    /\ UNCHANGED <<rtPhase, reconnectTimeoutRef, reconnectAttempts>>
    /\ UNCHANGED nonRtVars

RtUnmount ==
    /\ rtPhase = "mounted"
    /\ rtPhase' = "unmounted"
    /\ rtSockets' = RtCleanup
    /\ wsRef' = 0
    /\ UNCHANGED <<rtFloor, reconnectTimeoutRef, reconnectAttempts,
                   hasAutoStarted>>
    /\ UNCHANGED nonRtVars

(* ws.onopen (174-185) *)
RtOnOpen(i) ==
    /\ i \in 1..Len(rtSockets)
    /\ rtSockets[i].readyState = "CONNECTING"
    /\ rtSockets' = [rtSockets EXCEPT ![i].readyState = "OPEN"]
    /\ reconnectAttempts' = 0
    /\ UNCHANGED <<rtPhase, rtFloor, wsRef, reconnectTimeoutRef,
                   hasAutoStarted>>
    /\ UNCHANGED nonRtVars

(* ws.onclose (291-320) *)
RtOnClose(i) ==
    /\ i \in 1..Len(rtSockets)
    /\ rtSockets[i].readyState # "CLOSED"
    /\ IF reconnectAttempts < MAX_RECONNECT_ATTEMPTS
       THEN /\ reconnectAttempts' = reconnectAttempts + 1
            /\ rtSockets' = [rtSockets EXCEPT
                               ![i].readyState = "CLOSED",
                               ![i].timer = "pending",
                               ![i].delay =
                                  RtReconnectDelay(reconnectAttempts + 1)]
            /\ reconnectTimeoutRef' = i
       ELSE /\ rtSockets' = [rtSockets EXCEPT ![i].readyState = "CLOSED"]
            /\ UNCHANGED <<reconnectAttempts, reconnectTimeoutRef>>
    /\ UNCHANGED <<rtPhase, rtFloor, wsRef, hasAutoStarted>>
    /\ UNCHANGED nonRtVars

(* the timer of ws.onclose (310-313) fires *)
RtReconnectFire(i) ==
    /\ i \in 1..Len(rtSockets)
    /\ rtSockets[i].timer = "pending"
    /\ Len(rtSockets) < MaxRtSockets
    /\ LET fired == [rtSockets EXCEPT ![i].timer = "fired"]
           made == ConnectWebSocket(rtSockets[i].floor, fired, wsRef)
       IN  /\ rtSockets' = made.sockets
           /\ wsRef' = made.ref
    /\ UNCHANGED <<rtPhase, rtFloor, reconnectTimeoutRef, reconnectAttempts,
                   hasAutoStarted>>
    /\ UNCHANGED nonRtVars

NextRealtime ==
    \/ \E floor \in Floors : RtMount(floor)
    \/ \E floor \in Floors : RtFloorChange(floor)
    \/ RtUnmount
    \/ \E i \in 1..MaxRtSockets : RtOnOpen(i)
    \/ \E i \in 1..MaxRtSockets : RtOnClose(i)
    \/ \E i \in 1..MaxRtSockets : RtReconnectFire(i)

SpecRealtime == Init /\ [][NextRealtime]_vars

(***************************************************************************)
(* pages/TablePage.jsx 188-253: the effect that keeps a detection socket   *)
(* for every floor.                                                        *)
(*                                                                         *)
(* A socket is [floor, readyState, run, timer]: `run` is the effect run    *)
(* whose connectToFloor created it (its handlers, and the timer its        *)
(* onclose starts, are closures of that run) and `timer` the state of the  *)
(* 3-second timer of its onclose handler.  wsConnectionsRef is one ref     *)
(* shared by all runs.                                                     *)
(***************************************************************************)
MaxPageSockets == 4
MaxPageRuns == 3

PageNewSocket(floorId, run) ==
    [floor |-> floorId, readyState |-> "CONNECTING", run |-> run,
     timer |-> "none"]

(* connectToFloor (191-237) of run `run`, applied to the list of sockets   *)
(* and the connection map in `st`                                          *)
PageConnectToFloor(st, floorId, run) ==
    IF st.connections[floorId] # 0
    THEN st
    ELSE [sockets |-> Append(st.sockets, PageNewSocket(floorId, run)),
          connections |->
             [st.connections EXCEPT ![floorId] = Len(st.sockets) + 1]]

(* floors.forEach((floor) => connectToFloor(floor.id)) (240-242) *)
RECURSIVE PageConnectAll(_, _, _)
PageConnectAll(st, F, run) ==
    IF F = {}
    THEN st
    ELSE LET floorId == CHOOSE m \in F : \A f \in F : m <= f
         IN  PageConnectAll(PageConnectToFloor(st, floorId, run),
                            F \ {floorId}, run)

(* the cleanup (245-252), if the last run returned one *)
PageCleanup ==
    IF pageHasCleanup
    THEN [sockets |->
            [i \in 1..Len(pageSockets) |->
               IF /\ \E f \in Floors : pageConnections[f] = i
                  /\ pageSockets[i].readyState = "OPEN"
               THEN [pageSockets[i] EXCEPT !.readyState = "CLOSING"]
               ELSE pageSockets[i]],
          connections |-> [f \in Floors |-> 0]]
    ELSE [sockets |-> pageSockets, connections |-> pageConnections]

(* the effect's body (189-242) run with floors F after the state `st` *)
PageEffect(st, F) ==
    /\ pageRun < MaxPageRuns
    /\ pageRun' = pageRun + 1
    /\ pageFloors' = F
    /\ pageHasCleanup' = (F # {})
    /\ LET after == PageConnectAll(st, F, pageRun + 1)
       IN  /\ Len(after.sockets) <= MaxPageSockets
           /\ pageSockets' = after.sockets
           /\ pageConnections' = after.connections

PageMount(F) ==
    /\ pagePhase = "unrendered"
    /\ pagePhase' = "mounted"
    /\ PageEffect(PageCleanup, F)
    /\ UNCHANGED nonPageVars

(* floors or handleDetectionUpdate changed: cleanup, then the body again *)
PageRerun(F) ==
    /\ pagePhase = "mounted"
    /\ PageEffect(PageCleanup, F)
    /\ UNCHANGED pagePhase
    /\ UNCHANGED nonPageVars

PageUnmount ==
    /\ pagePhase = "mounted"
    /\ pagePhase' = "unmounted"
    /\ pageSockets' = PageCleanup.sockets
    /\ pageConnections' = PageCleanup.connections
    /\ UNCHANGED <<pageFloors, pageRun, pageHasCleanup>>
    /\ UNCHANGED nonPageVars

(* the socket opens; ws.onopen (207-209) only logs *)
PageOnOpen(i) ==
    /\ i \in 1..Len(pageSockets)
    /\ pageSockets[i].readyState = "CONNECTING"
    /\ pageSockets' = [pageSockets EXCEPT ![i].readyState = "OPEN"]
    /\ UNCHANGED <<pagePhase, pageFloors, pageRun, pageHasCleanup,
                   pageConnections>>
    /\ UNCHANGED nonPageVars

(* ws.onclose (229-234) *)
PageOnClose(i) ==
    /\ i \in 1..Len(pageSockets)
    /\ pageSockets[i].readyState # "CLOSED"
    /\ pageConnections' =
          [pageConnections EXCEPT ![pageSockets[i].floor] = 0]
    /\ pageSockets' = [pageSockets EXCEPT ![i].readyState = "CLOSED",
                                          ![i].timer = "pending"]
    /\ UNCHANGED <<pagePhase, pageFloors, pageRun, pageHasCleanup>>
    /\ UNCHANGED nonPageVars

(* setTimeout(() => connectToFloor(floorId), 3000) fires (233) *)
PageReconnectFire(i) ==
    /\ i \in 1..Len(pageSockets)
    /\ pageSockets[i].timer = "pending"
    /\ LET fired == [pageSockets EXCEPT ![i].timer = "fired"]
           after == PageConnectToFloor(
                       [sockets |-> fired, connections |-> pageConnections],
                       pageSockets[i].floor, pageSockets[i].run)
       IN  /\ Len(after.sockets) <= MaxPageSockets
           /\ pageSockets' = after.sockets
           /\ pageConnections' = after.connections
    /\ UNCHANGED <<pagePhase, pageFloors, pageRun, pageHasCleanup>>
    /\ UNCHANGED nonPageVars

NextPage ==
    \/ \E F \in SUBSET Floors : PageMount(F)
    \/ \E F \in SUBSET Floors : PageRerun(F)
    \/ PageUnmount
    \/ \E i \in 1..MaxPageSockets : PageOnOpen(i)
    \/ \E i \in 1..MaxPageSockets : PageOnClose(i)
    \/ \E i \in 1..MaxPageSockets : PageReconnectFire(i)

SpecPage == Init /\ [][NextPage]_vars

(***************************************************************************)
(* hooks/useCanvasInteractions: pointer gestures on the layout canvas.     *)
(*                                                                         *)
(* Geometry is abstracted: the pointer position of a pointer-move is one   *)
(* number, the coords [x1, y1, x2, y2] and the rotation that the handler   *)
(* computes from it are that number, and what the pointer hits on          *)
(* pointer-down (the result of the hit tests of lines 38-130) is an input. *)
(* Each handler runs as one task on the state of the last render.          *)
(***************************************************************************)
MaxPointer == 1

(* the value of arithmetic on a field that dragStart does not have *)
NaN == -1

Corners == {"tl", "tr", "bl", "br"}

PointerHits ==
    {[kind |-> "rotate", corner |-> "null", table |-> 0],
     [kind |-> "empty", corner |-> "null", table |-> 0]}
      \cup {[kind |-> "corner", corner |-> c, table |-> 0] : c \in Corners}
      \cup {[kind |-> "table", corner |-> "null", table |-> id] :
              id \in CanvasTableIds}

AnyMode == isDragging \/ isResizing \/ isRotating \/ isDrawing

(* the caller changes the floor filter *)
SetFilterFloor(floor) ==
    /\ floor # filterFloor
    /\ filterFloor' = floor
    /\ lastEvent' = "filter"
    /\ updateCalls' = << >>
    /\ addCalls' = 0
    /\ UNCHANGED <<localTables, selectedTable, isDragging, isResizing,
                   isRotating, resizeHandle, dragStart, isDrawing,
                   currentRect, gesture>>
    /\ UNCHANGED nonCanvasVars

(* handleCanvasMouseDown (22-142); the handles can only be hit when a      *)
(* table is selected                                                       *)
HandleCanvasMouseDown(hit) ==
    /\ hit.kind \in {"rotate", "corner"} => selectedTable # NullTable
    /\ lastEvent' = "down"
    /\ updateCalls' = << >>
    /\ addCalls' = 0
    /\ IF filterFloor = "all"
       THEN UNCHANGED <<selectedTable, isDragging, isResizing, isRotating,
                        resizeHandle, dragStart, isDrawing, currentRect,
                        gesture>>
       ELSE /\ gesture' = IF gesture # "none" THEN "overlapped"
                          ELSE IF hit.kind = "empty" THEN "draw"
                          ELSE "edit"
            /\ CASE hit.kind = "rotate" ->
                      /\ isRotating' = TRUE
                      /\ dragStart' = "rotate"
                      /\ UNCHANGED <<selectedTable, isDragging, isResizing,
                                     resizeHandle, isDrawing, currentRect>>
                 [] hit.kind = "corner" ->
                      /\ isResizing' = TRUE
                      /\ resizeHandle' = hit.corner
                      /\ dragStart' = "resize"
                      /\ UNCHANGED <<selectedTable, isDragging, isRotating,
                                     isDrawing, currentRect>>
                 [] hit.kind = "table" ->
                      /\ selectedTable' = hit.table
                      /\ isDragging' = TRUE
                      /\ dragStart' = "drag"
                      /\ UNCHANGED <<isResizing, isRotating, resizeHandle,
                                     isDrawing, currentRect>>
                 [] hit.kind = "empty" ->
                      /\ selectedTable' = NullTable
                      /\ isDrawing' = TRUE
                      /\ currentRect' = "small"
                      /\ UNCHANGED <<isDragging, isResizing, isRotating,
                                     resizeHandle, dragStart>>
    /\ UNCHANGED <<filterFloor, localTables>>
    /\ UNCHANGED nonCanvasVars

(* the rectangle drawn up to pointer position `pointer` passes the        *)
(* 20 x 20 test of handleCanvasMouseUp (352)                               *)
RectAt(pointer) == IF pointer > 0 THEN "big" ELSE "small"

(* the coords resized up to `pointer` pass the minSize test (226) *)
BigEnough(pointer) == pointer > 0

(* handleCanvasMouseMove (144-343) with the pointer at `pointer` *)
HandleCanvasMouseMove(pointer) ==
    /\ lastEvent' = "move"
    /\ updateCalls' = << >>
    /\ addCalls' = 0
    /\ IF filterFloor = "all"
       THEN UNCHANGED <<localTables, dragStart, currentRect>>
       ELSE IF isRotating /\ selectedTable # NullTable /\ dragStart # "null"
       THEN /\ localTables' =
                 [localTables EXCEPT ![selectedTable].rotation =
                     IF dragStart = "rotate" THEN pointer ELSE NaN]
            /\ UNCHANGED <<dragStart, currentRect>>
       ELSE IF /\ isResizing
               /\ selectedTable # NullTable
               /\ dragStart = "resize"
       THEN /\ localTables' =
                 IF BigEnough(pointer)
                 THEN [localTables EXCEPT ![selectedTable].coords = pointer]
                 ELSE localTables
            /\ UNCHANGED <<dragStart, currentRect>>
       ELSE IF isDragging /\ selectedTable # NullTable /\ dragStart # "null"
       THEN /\ localTables' =
                 [localTables EXCEPT ![selectedTable].coords = pointer]
            /\ dragStart' = "drag"
            /\ UNCHANGED currentRect
       ELSE IF isDrawing /\ currentRect # "null"
       THEN /\ currentRect' = RectAt(pointer)
            /\ UNCHANGED <<localTables, dragStart>>
       ELSE UNCHANGED <<localTables, dragStart, currentRect>>
    /\ UNCHANGED <<filterFloor, selectedTable, isDragging, isResizing,
                   isRotating, resizeHandle, isDrawing, gesture>>
    /\ UNCHANGED nonCanvasVars

(* handleCanvasMouseUp that leaves the modes of the gesture set *)
HandleCanvasMouseUpKeepsModes(event) ==
    /\ lastEvent' = event
    /\ gesture' = "none"
    /\ addCalls' = IF /\ isDrawing
                      /\ currentRect = "big"
                      /\ filterFloor # "all"
                   THEN 1
                   ELSE 0
    /\ currentRect' = IF isDrawing /\ currentRect # "null"
                         /\ filterFloor # "all"
                      THEN "null"
                      ELSE currentRect
    /\ IF (isDragging \/ isResizing \/ isRotating)
          /\ selectedTable # NullTable
       THEN LET updatedTable == localTables[selectedTable]
            IN  updateCalls' =
                   <<[id |-> selectedTable,
                      coords |-> updatedTable.coords,
                      rotation |-> updatedTable.rotation]>>
       ELSE updateCalls' = << >>
    /\ UNCHANGED selectedTable
    /\ isDrawing' = FALSE
    /\ resizeHandle' = "null"
    /\ dragStart' = "null"
    /\ UNCHANGED <<isDragging, isResizing, isRotating>>
    /\ UNCHANGED <<filterFloor, localTables>>
    /\ UNCHANGED nonCanvasVars

(* handleCanvasMouseUp (345-408), the handler of both mouseup and          *)
(* mouseleave                                                              *)
HandleCanvasMouseUp(event) ==
    /\ lastEvent' = event
    /\ gesture' = "none"
    /\ addCalls' = IF /\ isDrawing
                      /\ currentRect = "big"
                      /\ filterFloor # "all"
                   THEN 1
                   ELSE 0
    /\ currentRect' = IF isDrawing /\ currentRect # "null"
                         /\ filterFloor # "all"
                      THEN "null"
                      ELSE currentRect
    /\ IF (isDragging \/ isResizing \/ isRotating)
          /\ selectedTable # NullTable
       THEN LET updatedTable == localTables[selectedTable]
            IN  updateCalls' =
                   <<[id |-> selectedTable,
                      coords |-> updatedTable.coords,
                      rotation |-> updatedTable.rotation]>>
       ELSE updateCalls' = << >>
    /\ UNCHANGED selectedTable
    /\ isDrawing' = FALSE
    /\ isDragging' = FALSE
    /\ isResizing' = FALSE
    /\ isRotating' = FALSE
    /\ resizeHandle' = "null"
    /\ dragStart' = "null"
    /\ UNCHANGED <<filterFloor, localTables>>
    /\ UNCHANGED nonCanvasVars

NextCanvas ==
    \/ \E floor \in FilterFloors : SetFilterFloor(floor)
    \/ \E hit \in PointerHits : HandleCanvasMouseDown(hit)
    \/ \E pointer \in 0..MaxPointer : HandleCanvasMouseMove(pointer)
    \/ \E event \in {"up", "leave"} : HandleCanvasMouseUp(event)

SpecCanvas == Init /\ [][NextCanvas]_vars

(***************************************************************************)
(* Properties of the WebSocket manager.                                    *)
(***************************************************************************)

(* C1: for every floor id, at most one socket created by the manager is   *)
(* OPEN or CONNECTING in every reachable state.                            *)
C1_AtMostOneLivePerFloor == \A f \in Floors : LiveCount(f) <= 1

(* C2: floor X was removed from the set while its socket was open, the    *)
(* reconciliation closed the socket, X is still out of the set and the     *)
(* close event of that socket is now delivered: no reconnect timer is      *)
(* pending for X afterwards and no socket was created for X.               *)
C2_RemovedFloorStaysQuiet ==
    [][\A ws \in Refs :
         ( /\ ~isUnmounted
           /\ ws.sock.readyState = "CLOSING"
           /\ ws.sock.opened
           /\ ws.sock.floor \notin floors
           /\ \E failed \in BOOLEAN : OnClose(ws, failed) )
         => /\ ~wsReconnectTimeouts'[ws.sock.floor].pending
            /\ wsConnections'[ws.sock.floor] = NoSocket]_vars

(* C3: the floor set changes to a non-empty set without floor X while X   *)
(* has no socket and a pending reconnect timer: the reconciliation cancels *)
(* X's timer.                                                              *)
C3_BackoffTimerCancelled ==
    [][\A f \in Floors :
         ( /\ ~isUnmounted
           /\ f \in floors
           /\ f \notin floors'
           /\ floors' # {}
           /\ wsConnections[f] = NoSocket
           /\ LiveCount(f) = 0
           /\ wsReconnectTimeouts[f].pending )
         => ~wsReconnectTimeouts'[f].pending]_vars

(* C4: once the reconciliation for a new floor set F (the empty set       *)
(* included) has run, the manager holds no socket handle and no OPEN or    *)
(* CONNECTING socket for a floor id outside F.                             *)
C4_NothingOutsideNewSet ==
    [][\A F \in SUBSET Floors :
         Reconcile(F)
         => \A f \in Floors \ F :
               /\ wsConnections'[f] = NoSocket
               /\ LiveCount(f)' = 0]_vars

ClaimedDelay(N) ==
    CASE N = 1 -> 5000
      [] N = 2 -> 10000
      [] N = 3 -> 20000
      [] N = 4 -> 40000
      [] OTHER -> 0

(* C6: when the socket of a floor in the set closes and the incremented   *)
(* retry counter N is below the maximum, the reconnect timer is scheduled  *)
(* with delay 5000, 10000, 20000, 40000 ms for N = 1..4, never more than   *)
(* 60000 ms.                                                               *)
C6_BackoffDelay ==
    [][\A ws \in Refs, failed \in BOOLEAN :
         ( /\ ~isUnmounted
           /\ ws.sock.floor \in floors
           /\ wsReconnectAttempts'[ws.sock.floor]
                < WS_MAX_RECONNECT_ATTEMPTS
           /\ OnClose(ws, failed) )
         => LET timer == wsReconnectTimeouts'[ws.sock.floor]
                N == wsReconnectAttempts'[ws.sock.floor]
            IN  /\ N \in 1..4
                /\ timer.pending
                /\ timer.delay = ClaimedDelay(N)
                /\ timer.delay <= 60000]_vars

(* the fourth consecutive close has scheduled the 40000 ms reconnect *)
C6_Witness ==
    \E f \in floors :
       /\ ~isUnmounted
       /\ wsReconnectAttempts[f] = 4
       /\ wsConnections[f] = NoSocket
       /\ wsReconnectTimeouts[f].pending
       /\ wsReconnectTimeouts[f].delay = 40000

(* C7: once floor X's retry counter has reached the maximum (5 closes     *)
(* without an open in between), no reconnect timer is pending for X.       *)
C7_TerminalHasNoTimer ==
    \A f \in Floors :
       OrZero(wsReconnectAttempts[f]) >= WS_MAX_RECONNECT_ATTEMPTS
       => ~wsReconnectTimeouts[f].pending

(* C8: a successful open of floor X's socket (not unmounted) sets X's     *)
(* retry counter to 0 and clears X's connecting flag, and leaves counter,  *)
(* flag, socket handle and timer of every other floor unchanged.           *)
C8_OpenResetsOnlyItsFloor ==
    [][\A ws \in Refs :
         (~isUnmounted /\ OnOpen(ws))
         => /\ wsReconnectAttempts'[ws.sock.floor] = 0
            /\ ~isConnecting'[ws.sock.floor]
            /\ \A g \in Floors \ {ws.sock.floor} :
                  /\ wsReconnectAttempts'[g] = wsReconnectAttempts[g]
                  /\ isConnecting'[g] = isConnecting[g]
                  /\ wsConnections'[g] = wsConnections[g]
                  /\ wsReconnectTimeouts'[g] = wsReconnectTimeouts[g]]_vars

(* floor f's socket has opened (counter 0, flag clear) while the other    *)
(* floor is mid-retry with a non-zero counter and its flag set             *)
C8_Witness ==
    \E f \in Floors, g \in Floors :
       /\ f # g
       /\ ~isUnmounted
       /\ wsConnections[f].readyState = "OPEN"
       /\ wsReconnectAttempts[f] = 0
       /\ ~isConnecting[f]
       /\ wsReconnectAttempts[g] >= 2
       /\ isConnecting[g]
       /\ wsConnections[g].readyState = "CONNECTING"

(* C9: a {"type":"ping"} frame received on an open socket (not unmounted) *)
(* causes exactly one send, of {"type":"pong"}, on the socket that         *)
(* received the ping.                                                      *)
C9_PingAnsweredOnSameSocket ==
    [][\A ws \in Refs :
         (~isUnmounted /\ OnMessage(ws, RawPing))
         => outbox' = <<[to |-> ws, data |-> RawPong]>>]_vars

(* a pong has just been sent on a socket that is open, while the floor's  *)
(* map entry is another socket                                             *)
C9_Witness ==
    /\ ~isUnmounted
    /\ Len(outbox) = 1
    /\ outbox[1].data = RawPong
    /\ outbox[1].to \in Refs
    /\ ~outbox[1].to.stored
    /\ wsConnections[outbox[1].to.sock.floor].readyState = "OPEN"

(* C10: a received frame is passed to the caller's handler, with the       *)
(* originating floor id, exactly when it contains table_status.            *)
C10_OnlyTableStatusForwarded ==
    [][\A ws \in Refs, raw \in Frames :
         (~isUnmounted /\ OnMessage(ws, raw))
         => delivered' =
              IF JSONParse(raw).table_status
              THEN <<[data |-> raw, floorId |-> ws.sock.floor]>>
              ELSE << >>]_vars

(* the sockets that are CONNECTING, counted *)
ConnectingCount ==
    Cardinality({f \in Floors : wsConnections[f].readyState = "CONNECTING"})
      + BagCardinality(
          [d \in {x \in BagToSet(detached) : x.readyState = "CONNECTING"}
             |-> detached[d]])

(* C11: the unmount cleanup leaves no reconnect timer pending, and once    *)
(* unmounted no step (reconnect timer, staggered timer, close or open      *)
(* event) schedules a reconnect timer or creates a socket.                 *)
C11_NoConnectAfterShutdown ==
    [][isUnmounted' =>
         /\ \A f \in Floors : ~wsReconnectTimeouts'[f].pending
         /\ \A f \in Floors : wsConnections'[f] = NoSocket
         /\ TotalSockets' <= TotalSockets
         /\ ConnectingCount' <= ConnectingCount]_vars

(* unmounted with a staggered connect still pending and a socket whose     *)
(* close event is still to be delivered                                    *)
C11_Witness ==
    /\ isUnmounted
    /\ \E t \in staggerTimers : t.validHasFloor
    /\ \E d \in BagToSet(detached) : d.readyState = "CLOSING"
    /\ \A f \in Floors : ~wsReconnectTimeouts[f].pending

(* C12: after the unmount cleanup no socket the manager created is OPEN or *)
(* CONNECTING.                                                             *)
C12_AllClosedAfterShutdown ==
    isUnmounted => \A f \in Floors : LiveCount(f) = 0

(* C13: a reconciliation for a set F in which floor f is newly present     *)
(* sets f's retry counter to 0 and schedules a connection attempt for f.   *)
C13_NewFloorStartsAtZero ==
    [][\A F \in SUBSET Floors, f \in Floors :
         ( /\ f \notin floors
           /\ f \in F
           /\ Reconcile(F) )
         => /\ wsReconnectAttempts'[f] = 0
            /\ [floor |-> f, validHasFloor |-> TRUE] \in staggerTimers']_vars

(* C14: a frame that is not valid JSON, received on an open socket (not    *)
(* unmounted), changes no connection state (sockets, retry counters,       *)
(* connecting flags, timers), is not passed to the handler, causes no      *)
(* send, and leaves the socket open to receive further frames.             *)
C14_MalformedFrameDropped ==
    [][\A ws \in Refs :
         (~isUnmounted /\ OnMessage(ws, RawMalformed))
         => /\ UNCHANGED <<floors, wsConnections, detached,
                           wsReconnectAttempts, wsReconnectTimeouts,
                           isConnecting, isUnmounted, staggerTimers>>
            /\ delivered' = << >>
            /\ outbox' = << >>
            /\ ws \in Refs'
            /\ ws.sock.readyState = "OPEN"]_vars

(* the task that ran last received the malformed frame on an open socket   *)
C14_Witness ==
    /\ ~isUnmounted
    /\ received = <<RawMalformed>>
    /\ delivered = << >>
    /\ \E ws \in Refs : ws.sock.readyState = "OPEN"

(* C15: a close of a socket of one floor leaves socket handle, retry       *)
(* counter, connecting flag and reconnect timer of every other floor       *)
(* unchanged; with floors 1 and 2 both connected, the close of floor 2's   *)
(* socket schedules floor 2's reconnect timer, counts one attempt and      *)
(* schedules nothing else; and while another floor is at the retry         *)
(* maximum, a staggered or reconnect timer of a floor whose own guards     *)
(* pass still creates that floor's socket.                                 *)
C15_CloseTouchesOnlyItsFloor ==
    [][/\ \A ws \in Refs, failed \in BOOLEAN :
            (~isUnmounted /\ OnClose(ws, failed))
            => \A g \in Floors \ {ws.sock.floor} :
                  /\ wsConnections'[g] = wsConnections[g]
                  /\ wsReconnectAttempts'[g] = wsReconnectAttempts[g]
                  /\ isConnecting'[g] = isConnecting[g]
                  /\ wsReconnectTimeouts'[g] = wsReconnectTimeouts[g]
       /\ \A failed \in BOOLEAN :
            ( /\ ~isUnmounted
              /\ floors = {1, 2}
              /\ wsConnections[1].readyState = "OPEN"
              /\ wsConnections[2].readyState = "OPEN"
              /\ \A f \in Floors : ~wsReconnectTimeouts[f].pending
              /\ OnClose(StoredRef(2), failed) )
            => /\ wsReconnectTimeouts'[2].pending
               /\ wsReconnectAttempts'[2] =
                    OrZero(wsReconnectAttempts[2]) + 1
               /\ wsConnections'[2] = NoSocket
               /\ staggerTimers' = staggerTimers
               /\ LiveCount(2)' = LiveCount(2) - 1
       /\ \A f \in Floors :
            ( /\ ~isUnmounted
              /\ ~constructorThrows
              /\ ~isConnecting[f]
              /\ ~IsLive(wsConnections[f])
              /\ OrZero(wsReconnectAttempts[f]) < WS_MAX_RECONNECT_ATTEMPTS
              /\ \E g \in Floors \ {f} :
                    OrZero(wsReconnectAttempts[g])
                      >= WS_MAX_RECONNECT_ATTEMPTS
              /\ \/ StaggerFire([floor |-> f, validHasFloor |-> TRUE])
                 \/ ( /\ wsReconnectTimeouts[f].validHasFloor
                      /\ ReconnectFire(f) ) )
            => wsConnections'[f].readyState = "CONNECTING"]_vars

(* floors 1 and 2 were connected and floor 2's socket has closed: floor 2  *)
(* waits for its first reconnect, floor 1 is still open                    *)
C15_Witness ==
    /\ ~isUnmounted
    /\ floors = {1, 2}
    /\ wsConnections[1].readyState = "OPEN"
    /\ wsReconnectAttempts[1] = 0
    /\ wsConnections[2] = NoSocket
    /\ wsReconnectAttempts[2] = 1
    /\ wsReconnectTimeouts[2].pending
    /\ ~wsReconnectTimeouts[1].pending
    /\ staggerTimers = {}
    /\ detached = EmptyBag

(***************************************************************************)
(* Properties of the backend connection monitor.                           *)
(***************************************************************************)

(* C16: a health probe that completes healthy invokes every registered     *)
(* onConnect callback once, in registration order, when the monitor was    *)
(* disconnected when it completed, and none when it was connected; no      *)
(* other task invokes a callback.  Probes may overlap.                     *)
C16_CallbacksOnTransitionOnly ==
    [][/\ \A isHealthy \in BOOLEAN :
            ProbeComplete(isHealthy)
            => invoked' =
                 IF isHealthy /\ ~isConnected
                 THEN onConnectCallbacks
                 ELSE << >>
       /\ invoked' # << >> => ProbeComplete(TRUE)]_vars

(* two probes overlapped: the first to complete found the monitor          *)
(* disconnected and invoked both registered callbacks, the other is still  *)
(* in flight                                                               *)
C16_Witness ==
    /\ isConnected
    /\ Len(onConnectCallbacks) = 2
    /\ invoked = onConnectCallbacks
    /\ probes >= 1

(* C17: the polling effect sets the interval to min(2000 * (retryCount +   *)
(* 1), 10000) ms while disconnected and 30000 ms while connected, and      *)
(* after a failed probe (disconnected, retryCount > 0) a new probe is      *)
(* started only by a tick of that interval or by retry().                  *)
C17_FailedProbeWaitsForInterval ==
    [][/\ PollingEffect
            => interval' =
                 IF isConnected
                 THEN 30000
                 ELSE Min(2000 * (retryCount + 1), 10000)
       /\ (probes' > probes /\ ~isConnected /\ retryCount > 0)
            => (IntervalFire \/ Retry)]_vars

(* C18: onConnect(cb) registers cb; on every disconnected-to-connected     *)
(* transition every registered callback is invoked and no callback whose   *)
(* unsubscribe function was called is; unsubscribing cb leaves every other *)
(* callback registered.                                                    *)
C18_UnsubscribedNotInvoked ==
    [][/\ \A cb \in Callbacks :
            OnConnect(cb) => cb \in Range(onConnectCallbacks')
       /\ \A cb \in Callbacks :
            Unsubscribe(cb)
            => \A other \in Callbacks \ {cb} :
                  other \in Range(onConnectCallbacks')
                    <=> other \in Range(onConnectCallbacks)
       /\ (~isConnected /\ ProbeComplete(TRUE))
            => \A cb \in Range(onConnectCallbacks) : cb \in Range(invoked')
       /\ \A cb \in unsubscribed' : cb \notin Range(invoked')]_vars

(* a transition has invoked a registered callback after another callback   *)
(* was unsubscribed                                                        *)
C18_Witness ==
    /\ isConnected
    /\ invoked # << >>
    /\ invoked = onConnectCallbacks
    /\ \E cb \in unsubscribed : cb \notin Range(invoked)

(***************************************************************************)
(* Properties of the REST client and of App's table handlers.              *)
(***************************************************************************)

(* C19: a client call that got a non-2xx response rejects with an error    *)
(* whose message is the server's detail when the body has one, and         *)
(* otherwise contains the HTTP status code.                                *)
C19_ErrorCarriesDetailOrStatus ==
    ( /\ lastCall.fn \in Endpoints
      /\ lastCall.response # NetworkError
      /\ ~ResponseOk(lastCall.response) )
    => /\ lastCall.rejected
       /\ IF lastCall.response.body = "detail"
          THEN lastCall.message = <<ServerDetail>>
          ELSE ToString(lastCall.response.status) \in Range(lastCall.message)

(* C20: when the REST call made by handleAddTable, handleUpdateTable or    *)
(* handleDeleteTable fails, the promise the handler returned rejects.      *)
C20_FailuresPropagate ==
    ( /\ lastCall.fn \in
           {<<"App", "handleAddTable">>, <<"App", "handleUpdateTable">>,
            <<"App", "handleDeleteTable">>}
      /\ lastCall.restFailed )
    => lastCall.rejected

(***************************************************************************)
(* Further properties of the WebSocket manager.                            *)
(***************************************************************************)

(* C29: in every reachable state the retry counter of every floor that has *)
(* one is between 0 and WS_MAX_RECONNECT_ATTEMPTS (5) inclusive.  (The     *)
(* manager keeps one timer id per floor and clears it before replacing     *)
(* it, so no floor has two reconnect timers pending.)                      *)
C29_CounterWithinMaximum ==
    \A f \in Floors :
       wsReconnectAttempts[f] # Undefined
       => /\ wsReconnectAttempts[f] >= 0
          /\ wsReconnectAttempts[f] <= 5

(***************************************************************************)
(* Further properties of the backend connection monitor.                   *)
(***************************************************************************)

(* C28: when a probe completes after the probe started last has already   *)
(* completed (an older result arriving later), it changes neither the      *)
(* connected state nor the retry counter and runs no callback.             *)
C28_StaleProbeIgnored ==
    [][(newestDone /\ probes' < probes)
         => /\ isConnected' = isConnected
            /\ retryCount' = retryCount
            /\ invoked' = << >>]_vars

(***************************************************************************)
(* Properties of the detection-derived table status.                       *)
(***************************************************************************)

(* the index of the last entry of a message that names table id, 0 if none *)
LastEntryFor(entries, id) ==
    IF \E i \in 1..Len(entries) : entries[i].id = id
    THEN CHOOSE i \in 1..Len(entries) :
            /\ entries[i].id = id
            /\ \A j \in (i + 1)..Len(entries) : entries[j].id # id
    ELSE 0

(* C22: after a detection message is handled (lastCall records the task   *)
(* and the message's entries), every table named by an entry has the       *)
(* status 'occupied' or 'available' given by the occupied flag of the last *)
(* entry naming it, every other table keeps its status, and no REST call   *)
(* is issued.                                                              *)
C22_LastEntryWins ==
    [][lastCall'.fn = <<"TablePage", "handleDetectionUpdate">>
         => /\ issued' = << >>
            /\ tables' = tables
            /\ \A id \in TableIds :
                  LET entries == lastCall'.message
                      last == LastEntryFor(entries, id)
                  IN  tableStatus'[id] =
                        IF last # 0 /\ tables[id] # NoTable
                        THEN (IF entries[last].occupied
                              THEN "occupied"
                              ELSE "available")
                        ELSE tableStatus[id]]_vars

(* a message whose two entries name the same table, first occupied then    *)
(* free, has been handled; another table, reserved, is not named           *)
C22_Witness ==
    /\ lastCall.fn = <<"TablePage", "handleDetectionUpdate">>
    /\ Len(lastCall.message) = 2
    /\ lastCall.message[1].id = lastCall.message[2].id
    /\ lastCall.message[1].occupied
    /\ ~lastCall.message[2].occupied
    /\ tableStatus[lastCall.message[1].id] = "available"
    /\ \E other \in TableIds : tableStatus[other] = "reserved"

(***************************************************************************)
(* Properties of RealtimeDetection.                                        *)
(***************************************************************************)

(* the delay of the N-th consecutive reconnect under exponential backoff *)
ClaimedRtDelay(attempts) == BASE_RECONNECT_DELAY * Pow2(attempts - 1)

(* C23: the N-th consecutive reconnect after a close is scheduled with the *)
(* delay BASE_RECONNECT_DELAY * 2^(N-1): 3000, 6000, 12000, 24000, 48000.  *)
(* (The component stops after MAX_RECONNECT_ATTEMPTS reconnects, so the    *)
(* largest claimed delay is 48000, below the 60 s cap.)                    *)
C23_ExponentialBackoff ==
    [][\A i \in 1..Len(rtSockets) :
          (rtSockets[i].timer = "none" /\ rtSockets'[i].timer = "pending")
          => rtSockets'[i].delay
               = ClaimedRtDelay(reconnectAttempts')]_vars

(* C24: a socket the effect cleanup closed never has a reconnect timer     *)
(* started by its close handler, whether pending or already fired, so its  *)
(* handlers create no new WebSocket.                                       *)
C24_NoReconnectAfterCleanup ==
    \A i \in 1..Len(rtSockets) :
       rtSockets[i].cleaned => rtSockets[i].timer \notin {"pending", "fired"}

(* C27: every WebSocket the mounted component opens targets the floor on   *)
(* display, and no socket of another floor stays open or connecting.       *)
C27_SocketsTargetDisplayedFloor ==
    [][rtPhase' = "mounted"
         => /\ Len(rtSockets') > Len(rtSockets)
                  => rtSockets'[Len(rtSockets')].floor = rtFloor'
            /\ \A i \in 1..Len(rtSockets') :
                  rtSockets'[i].readyState \in {"CONNECTING", "OPEN"}
                     => rtSockets'[i].floor = rtFloor']_vars

(***************************************************************************)
(* Properties of TablePage's all-floors WebSocket effect.                  *)
(***************************************************************************)

(* the effect run `run` has been cleaned up *)
PageCleanedUp(run) == run < pageRun \/ pagePhase = "unmounted"

PageLive(i) == pageSockets[i].readyState \in {"CONNECTING", "OPEN"}

(* C25: once an effect run has been cleaned up, no socket created by that  *)
(* run or by one of its handlers is OPEN or CONNECTING.                    *)
C25_CleanupClosesRun ==
    \A i \in 1..Len(pageSockets) :
       PageCleanedUp(pageSockets[i].run) => ~PageLive(i)

(* C26: at every moment at most one socket per floor id is OPEN or        *)
(* CONNECTING, and every socket that is created belongs to a floor of the  *)
(* floors list.                                                            *)
C26_OneSocketPerFloor ==
    [][/\ \A i, j \in 1..Len(pageSockets') :
             (pageSockets'[i].readyState \in {"CONNECTING", "OPEN"}
                /\ pageSockets'[j].readyState \in {"CONNECTING", "OPEN"}
                /\ pageSockets'[i].floor = pageSockets'[j].floor) => i = j
       /\ \A i \in (Len(pageSockets) + 1)..Len(pageSockets') :
             pageSockets'[i].floor \in pageFloors']_vars

(***************************************************************************)
(* Properties of useCanvasInteractions.                                    *)
(***************************************************************************)

(* C21: a move, resize or rotate gesture (one pointer-down on a table or a *)
(* handle, pointer-moves, then pointer-up or pointer-leave) calls          *)
(* onUpdateTable exactly once, in the task that ends it, with the coords   *)
(* and rotation that the moves left in localTables; a pointer-down or      *)
(* pointer-move calls nothing, and a pointer-up or pointer-leave with no   *)
(* gesture open calls nothing.                                             *)
C21_UpdateOncePerGesture ==
    [][/\ lastEvent' \in {"down", "move"} => updateCalls' = << >>
       /\ (lastEvent' \in {"up", "leave"} /\ gesture = "edit")
             => updateCalls' =
                  <<[id |-> selectedTable,
                     coords |-> localTables[selectedTable].coords,
                     rotation |-> localTables[selectedTable].rotation]>>
       /\ (lastEvent' \in {"up", "leave"} /\ gesture = "none")
             => updateCalls' = << >>]_vars

(* a pointer-up that ends a gesture in which the table was moved *)
C21_Witness ==
    /\ lastEvent = "up"
    /\ Len(updateCalls) = 1
    /\ updateCalls[1].coords # 0
    /\ ~AnyMode

(* C30: at most one of isDragging, isResizing, isRotating and isDrawing is *)
(* true at any time, and after a pointer-up or pointer-leave all four are  *)
(* false and dragStart and resizeHandle are null.                          *)
C30_SingleMode ==
    /\ \A m, n \in {"drag", "resize", "rotate", "draw"} :
          LET on(mode) == CASE mode = "drag" -> isDragging
                            [] mode = "resize" -> isResizing
                            [] mode = "rotate" -> isRotating
                            [] mode = "draw" -> isDrawing
          IN  (on(m) /\ on(n)) => m = n
    /\ lastEvent \in {"up", "leave"}
          => /\ ~AnyMode
             /\ dragStart = "null"
             /\ resizeHandle = "null"

====
